---- MODULE Spec2Model ----
(***************************************************************************)
(* apply-pgscatalog-prs.py: one run of the script, from check_input to    *)
(* the final .prs table.  The run is single-threaded; pc is the position  *)
(* of main() in the source.                                                *)
(***************************************************************************)
EXTENDS Integers, Sequences, FiniteSets, TLC

VARIABLES
    pc,                      \* where main() is
    args,                    \* argparse namespace: genetic, prs_wm, out
    fs,                      \* input files that exist (set of paths)
    disk,                    \* files written by this run: path -> lines
    exited,                  \* the process has terminated abnormally
    exitCode,                \* its exit status
    cause,                   \* the failure that ended the run
    prs_wm_text_file,        \* load_data's local after maybe_unpack
    processed_wm_text_file,  \* load_data's local: the artifact path
    pgscatalog_df,           \* the weight table
    columns,                 \* annotate_pgscatalog_file's mapper
    plink_variants_df,       \* the panel (.bim)
    prompts,                 \* the prompts asked so far, in order
    how_to_match,            \* preprocess_data's answer
    was_match_successful,    \* preprocess_data's local
    plink_calls,             \* subprocess.run(["plink", ...]) calls made
    process,                 \* calculate_prs' local: <<returncode>> once plink ran
    profile_df               \* calculate_prs' df, as read and as filtered

vars == <<pc, args, fs, disk, exited, exitCode, cause, prs_wm_text_file,
          processed_wm_text_file, pgscatalog_df, columns, plink_variants_df,
          prompts, how_to_match, was_match_successful, plink_calls, process,
          profile_df>>

---------------------------------------------------------------------------
(* Bounds of the inputs.                                                   *)
MaxRows == 2
MaxPanel == 2
MaxSamples == 2

(* Exit statuses of the script.                                            *)
ExitGeneticMissing == 1
ExitGeneticMalformed == 4
ExitPrsWmMissing == 2
ExitPrsWmNotFile == 5
ExitOutMissing == 3
ExitUnannotated == 30
ExitConcordance == 40
ExitPlinkFailed == 20
(* CPython's exit status for an uncaught exception (assert, KeyError).     *)
ExitUncaught == 1

(* 0.50 and 0.95, in hundredths.                                           *)
MatchThresholdPct == 50
QcThresholdPct == 95

---------------------------------------------------------------------------
(* Python values.  A str path is a sequence of characters; None is a value *)
(* no path equals.  A table cell or an index label is an int or a str.     *)
None == <<"None">>
IntVal(n) == [t |-> "int", i |-> n, s |-> ""]
StrVal(x) == [t |-> "str", i |-> 0, s |-> x]

Digit(d) ==
    CASE d = 0 -> "0" [] d = 1 -> "1" [] d = 2 -> "2" [] d = 3 -> "3"
      [] d = 4 -> "4" [] d = 5 -> "5" [] d = 6 -> "6" [] d = 7 -> "7"
      [] d = 8 -> "8" [] d = 9 -> "9"

RECURSIVE NatToStr(_)
NatToStr(n) == IF n < 10 THEN Digit(n) ELSE NatToStr(n \div 10) \o Digit(n % 10)

(* str(v) of a cell: decimal digits for an int, the text itself for a str. *)
PyStr(v) ==
    IF v.t = "int"
    THEN (IF v.i < 0 THEN "-" \o NatToStr(-v.i) ELSE NatToStr(v.i))
    ELSE v.s

(* s.endswith(suffix) and s[:-n] on character sequences.                   *)
EndsWith(s, suffix) ==
    /\ Len(s) >= Len(suffix)
    /\ SubSeq(s, Len(s) - Len(suffix) + 1, Len(s)) = suffix
DropLast(s, n) == SubSeq(s, 1, Len(s) - n)

Range(f) == {f[x] : x \in DOMAIN f}

---------------------------------------------------------------------------
(* The paths of the run.                                                   *)
GeneticPrefix == <<"g">>
OutPrefix == <<"o">>
WmTxt == <<"w", ".", "t", "x", "t">>
GzSuffix == <<".", "g", "z">>
TxtGzSuffix == <<".", "t", "x", "t">> \o GzSuffix
WmTxtGz == WmTxt \o GzSuffix
BedExt == <<".", "b", "e", "d">>
BimExt == <<".", "b", "i", "m">>
FamExt == <<".", "f", "a", "m">>
AnnotatedExt == <<".", "a", "n", "n", "o", "t", "a", "t", "e", "d">>
ProfileExt == <<".", "p", "r", "o", "f", "i", "l", "e">>
PrsExt == <<".", "p", "r", "s">>

(* os.path.isfile                                                          *)
IsFile(p) == p \in fs \/ p \in DOMAIN disk

(* exit(code), or an uncaught exception: the run ends here.                *)
Exit(code, why) ==
    /\ pc' = "exit"
    /\ exited' = TRUE
    /\ exitCode' = code
    /\ cause' = why

NoExit == UNCHANGED <<exited, exitCode, cause>>

---------------------------------------------------------------------------
NewDataFrame(header, rows) ==
    [columns |-> header,
     index_name |-> "",
     index |-> [i \in 1..Len(rows) |-> IntVal(i - 1)],
     data |-> rows]

Init ==
    /\ pc = "check_input"
    /\ args \in [genetic : {None, GeneticPrefix},
                 prs_wm : {None, WmTxt, WmTxtGz},
                 out : {None, OutPrefix}]
    /\ \E trio \in SUBSET {GeneticPrefix \o BedExt, GeneticPrefix \o BimExt,
                           GeneticPrefix \o FamExt},
          wm \in SUBSET {args.prs_wm} :
          fs = trio \cup (wm \ {None})
    /\ disk = <<>>
    /\ exited = FALSE
    /\ exitCode = 0
    /\ cause = "none"
    /\ prs_wm_text_file = None
    /\ processed_wm_text_file = None
    /\ pgscatalog_df = NewDataFrame(<<>>, <<>>)
    /\ columns = <<>>
    /\ plink_variants_df = <<>>
    /\ prompts = <<>>
    /\ how_to_match = "unasked"
    /\ was_match_successful = FALSE
    /\ plink_calls = 0
    /\ process = <<>>
    /\ profile_df = <<>>

(* check_input: the first failing precondition decides the exit status.    *)
CheckInput ==
    /\ pc = "check_input"
    /\ UNCHANGED <<args, fs, disk, prs_wm_text_file, processed_wm_text_file,
                   pgscatalog_df, columns, plink_variants_df, prompts,
                   how_to_match, was_match_successful, plink_calls, profile_df,
                   process>>
    /\ IF args.genetic = None
       THEN Exit(ExitGeneticMissing, "genetic_missing")
       ELSE IF \E ext \in {BedExt, BimExt, FamExt} : ~IsFile(args.genetic \o ext)
       THEN Exit(ExitGeneticMalformed, "genetic_malformed")
       ELSE IF args.prs_wm = None
       THEN Exit(ExitPrsWmMissing, "prs_wm_missing")
       ELSE IF ~IsFile(args.prs_wm)
       THEN Exit(ExitPrsWmNotFile, "prs_wm_not_file")
       ELSE IF args.out = None
       THEN Exit(ExitOutMissing, "out_missing")
       ELSE pc' = "maybe_unpack" /\ NoExit

(* load_data, lines 257-261: maybe_unpack and the artifact path.  gunzip   *)
(* either replaces the .gz by the unpacked file or fails; the assert then  *)
(* raises AssertionError, which nothing catches.                           *)
MaybeUnpack ==
    /\ pc = "maybe_unpack"
    /\ UNCHANGED <<args, disk, pgscatalog_df, columns, plink_variants_df,
                   prompts, how_to_match, was_match_successful, plink_calls,
                   profile_df,
                   process>>
    /\ IF EndsWith(args.prs_wm, TxtGzSuffix)
       THEN \E returncode \in {0, 1} :
              IF returncode = 0
              THEN /\ fs' = (fs \ {args.prs_wm}) \cup {DropLast(args.prs_wm, 3)}
                   /\ prs_wm_text_file' = DropLast(args.prs_wm, 3)
                   /\ processed_wm_text_file' = DropLast(args.prs_wm, 3) \o AnnotatedExt
                   /\ pc' = "load_prs_wm"
                   /\ NoExit
              ELSE /\ Exit(ExitUncaught, "gunzip_crashed")
                   /\ UNCHANGED <<fs, prs_wm_text_file, processed_wm_text_file>>
       ELSE /\ prs_wm_text_file' = args.prs_wm
            /\ processed_wm_text_file' = args.prs_wm \o AnnotatedExt
            /\ pc' = "load_prs_wm"
            /\ UNCHANGED fs
            /\ NoExit

---------------------------------------------------------------------------
(* pandas.  A DataFrame has column names, one index label per row and the  *)
(* rows' cells, aligned with the column names.                             *)
HasColumn(df, name) == \E j \in DOMAIN df.columns : df.columns[j] = name
ColumnIndex(df, name) == CHOOSE j \in DOMAIN df.columns : df.columns[j] = name
Column(df, name) == [i \in DOMAIN df.data |-> df.data[i][ColumnIndex(df, name)]]

(* df[name] = values                                                       *)
SetColumn(df, name, values) ==
    IF HasColumn(df, name)
    THEN [df EXCEPT !.data = [i \in DOMAIN df.data |->
                                [df.data[i] EXCEPT ![ColumnIndex(df, name)] = values[i]]]]
    ELSE [df EXCEPT !.columns = Append(df.columns, name),
                    !.data = [i \in DOMAIN df.data |-> Append(df.data[i], values[i])]]

(* series.astype(str)                                                      *)
AstypeStr(series) == [i \in DOMAIN series |-> StrVal(PyStr(series[i]))]

(* df.rename(mapper, inplace=True): with neither columns= nor axis=, the   *)
(* mapper is applied to the index labels (axis 0); a label the mapper does *)
(* not have is kept.                                                       *)
RenameLabel(mapper, label) ==
    IF label.t = "str" /\ label.s \in DOMAIN mapper
    THEN StrVal(mapper[label.s])
    ELSE label
Rename(df, mapper) ==
    [df EXCEPT !.index = [i \in DOMAIN df.index |-> RenameLabel(mapper, df.index[i])]]

(* df[[names]]: the columns named, in that order                           *)
Project(df, names) ==
    [columns |-> names,
     index_name |-> df.index_name,
     index |-> df.index,
     data |-> [i \in DOMAIN df.data |->
                 [k \in DOMAIN names |-> df.data[i][ColumnIndex(df, names[k])]]]]

(* df.to_csv(path, sep="\t"): index and header are written by default, so  *)
(* the header line starts with the index's name (empty for the default     *)
(* index) and every data line with the row's index label.  A line is the sequence of its fields.      *)
ToCsv(df) ==
    <<(<<df.index_name>> \o df.columns)>> \o
    [i \in DOMAIN df.data |->
        <<PyStr(df.index[i])>> \o [k \in DOMAIN df.data[i] |-> PyStr(df.data[i][k])]]

(* The rows of df at the positions kept, in their order.                   *)
RECURSIVE KeepRows(_, _, _)
KeepRows(df, kept, i) ==
    IF i > Len(df.data)
    THEN [df EXCEPT !.index = <<>>, !.data = <<>>]
    ELSE LET rest == KeepRows(df, kept, i + 1)
         IN  IF i \in kept
             THEN [rest EXCEPT !.index = <<df.index[i]>> \o rest.index,
                               !.data = <<df.data[i]>> \o rest.data]
             ELSE rest

---------------------------------------------------------------------------
(* The inputs the run may read.  A weight matrix has a header, either the  *)
(* PGS Catalog's own names or a provider's, and up to MaxRows rows; the    *)
(* cells are (identifier, chromosome, position, effect allele, weight).    *)
CanonicalHeader == <<"rsID", "chr_name", "chr_position", "effect_allele", "effect_weight">>
ProviderHeader == <<"SNP", "CHR", "BP", "A1", "BETA">>
WeightRowPool ==
    { <<StrVal("rs1"), StrVal("1"), IntVal(100), StrVal("A"), IntVal(2)>>,
      <<StrVal("rs2"), StrVal("chr1"), IntVal(200), StrVal("C"), IntVal(-1)>> }
WeightTables ==
    UNION {[1..n -> WeightRowPool] : n \in 0..MaxRows}

(* A .bim has at least one line (pandas raises on an empty file).          *)
PanelRowPool ==
    { [chr_name |-> StrVal("1"), rsid |-> StrVal("rs1"), chr_position |-> IntVal(100)],
      [chr_name |-> StrVal("1"), rsid |-> StrVal("."), chr_position |-> IntVal(200)],
      [chr_name |-> StrVal("1"), rsid |-> StrVal("1:100"), chr_position |-> IntVal(100)] }
Panels ==
    UNION {[1..n -> PanelRowPool] : n \in 1..MaxPanel}

---------------------------------------------------------------------------
(* load_prs_wm                                                             *)
LoadPrsWm ==
    /\ pc = "load_prs_wm"
    /\ \E header \in {CanonicalHeader, ProviderHeader}, rows \in WeightTables :
          pgscatalog_df' = NewDataFrame(header, rows)
    /\ pc' = "annotate"
    /\ NoExit
    /\ UNCHANGED <<args, fs, disk, prs_wm_text_file, processed_wm_text_file,
                   columns, plink_variants_df, prompts, how_to_match,
                   was_match_successful, plink_calls, profile_df,
                   process>>

(* annotate_pgscatalog_file: the dict literal keeps the later entry when   *)
(* both answers name the same column.                                      *)
annotate_pgscatalog_file(beta_column, effect_allele_column) ==
    [k \in {beta_column, effect_allele_column} |->
        IF k = effect_allele_column THEN "effect_allele" ELSE "effect_weight"]

(* load_data, lines 269-270: the two prompts and the rename.               *)
AnnotatePgscatalogFile ==
    /\ pc = "annotate"
    /\ \E beta_column \in Range(pgscatalog_df.columns),
          effect_allele_column \in Range(pgscatalog_df.columns) :
          /\ columns' = annotate_pgscatalog_file(beta_column, effect_allele_column)
          /\ pgscatalog_df' = Rename(pgscatalog_df, columns')
    /\ prompts' = prompts \o <<"beta", "effect allele">>
    /\ pc' = "load_plink"
    /\ NoExit
    /\ UNCHANGED <<args, fs, disk, prs_wm_text_file, processed_wm_text_file,
                   plink_variants_df, how_to_match, was_match_successful,
                   plink_calls, profile_df,
                   process>>

(* load_data, lines 276-288: the panel's .bim                              *)
LoadPlink ==
    /\ pc = "load_plink"
    /\ plink_variants_df' \in Panels
    /\ pc' = "how_to_match"
    /\ NoExit
    /\ UNCHANGED <<args, fs, disk, prs_wm_text_file, processed_wm_text_file,
                   pgscatalog_df, columns, prompts, how_to_match,
                   was_match_successful, plink_calls, profile_df,
                   process>>

---------------------------------------------------------------------------
(* preprocess_data, lines 293-299: the strategy prompt                     *)
AskHowToMatch ==
    /\ pc = "how_to_match"
    /\ how_to_match' \in {"rsid", "pos"}
    /\ prompts' = Append(prompts, "how_to_match")
    /\ pc' = "prep_keys"
    /\ NoExit
    /\ UNCHANGED <<args, fs, disk, prs_wm_text_file, processed_wm_text_file,
                   pgscatalog_df, columns, plink_variants_df,
                   was_match_successful, plink_calls, profile_df,
                   process>>

(* The check with the empty string taken for the sentinel.                 *)
PanelUnannotatedEmptySentinel(panel) ==
    /\ Cardinality({panel[j].rsid : j \in DOMAIN panel}) = 1
    /\ panel[1].rsid = StrVal("")
(* prep_keys_rsid, line 162: one distinct identifier, and it is "."        *)
PanelUnannotated(panel) ==
    /\ Cardinality({panel[j].rsid : j \in DOMAIN panel}) = 1
    /\ panel[1].rsid = StrVal(".")

(* prep_keys_rsid, line 171                                                *)
KeysFromRsid(df, rsid_column) ==
    SetColumn(df, "pos_key", AstypeStr(Column(df, rsid_column)))

(* prep_keys_chrompos, line 186: the weight table's chromosome and         *)
(* position, as they are, joined by ":"                                    *)
KeysFromChrompos(df, chrom_column, pos_column) ==
    SetColumn(df, "pos_key",
        [i \in DOMAIN df.data |->
            StrVal(PyStr(Column(df, chrom_column)[i]) \o ":"
                   \o PyStr(Column(df, pos_column)[i]))])

prep_keys_rsid ==
    /\ pc = "prep_keys"
    /\ how_to_match = "rsid"
    /\ UNCHANGED <<args, fs, disk, prs_wm_text_file, processed_wm_text_file,
                   columns, plink_variants_df, how_to_match,
                   was_match_successful, plink_calls, profile_df,
                   process>>
    /\ IF PanelUnannotated(plink_variants_df)
       THEN /\ Exit(ExitUnannotated, "unannotated")
            /\ UNCHANGED <<pgscatalog_df, prompts>>
       ELSE /\ \E rsid_column \in Range(pgscatalog_df.columns) :
                  pgscatalog_df' = KeysFromRsid(pgscatalog_df, rsid_column)
            /\ prompts' = Append(prompts, "rsID")
            /\ pc' = "check_the_files_match"
            /\ NoExit

prep_keys_chrompos ==
    /\ pc = "prep_keys"
    /\ how_to_match = "pos"
    /\ \E chrom_column \in Range(pgscatalog_df.columns),
          pos_column \in Range(pgscatalog_df.columns) :
          pgscatalog_df' = KeysFromChrompos(pgscatalog_df, chrom_column, pos_column)
    /\ prompts' = prompts \o <<"chromosome", "position">>
    /\ pc' = "check_the_files_match"
    /\ NoExit
    /\ UNCHANGED <<args, fs, disk, prs_wm_text_file, processed_wm_text_file,
                   columns, plink_variants_df, how_to_match,
                   was_match_successful, plink_calls, profile_df,
                   process>>

(* check_the_files_match: the panel's identifiers, as a set, intersected   *)
(* with the weight table's keys; the rows of the weight table are counted  *)
(* with their duplicates.  k > 0.50 * n is compared in hundredths.         *)
amount_of_shared_keys(df, panel) ==
    Cardinality({panel[j].rsid : j \in DOMAIN panel}
                \cap Range(Column(df, "pos_key")))
(* The comparison with the boundary included.                              *)
check_the_files_match_inclusive(df, panel) ==
    100 * amount_of_shared_keys(df, panel) >= MatchThresholdPct * Len(df.data)
check_the_files_match(df, panel) ==
    100 * amount_of_shared_keys(df, panel) > MatchThresholdPct * Len(df.data)

(* preprocess_data, line 308                                               *)
CheckTheFilesMatch ==
    /\ pc = "check_the_files_match"
    /\ was_match_successful' = check_the_files_match(pgscatalog_df, plink_variants_df)
    /\ pc' = "to_csv"
    /\ NoExit
    /\ UNCHANGED <<args, fs, disk, prs_wm_text_file, processed_wm_text_file,
                   pgscatalog_df, columns, plink_variants_df, prompts,
                   how_to_match, plink_calls, profile_df,
                   process>>

ArtifactColumns == <<"pos_key", "effect_allele", "effect_weight">>
(* The artifact written only once the verdict is known to be accepted.     *)
WriteArtifactOnAcceptOnly ==
    /\ pc = "to_csv"
    /\ UNCHANGED <<args, fs, prs_wm_text_file, processed_wm_text_file,
                   pgscatalog_df, columns, plink_variants_df, prompts,
                   how_to_match, was_match_successful, plink_calls, profile_df,
                   process>>
    /\ IF \E k \in DOMAIN ArtifactColumns : ~HasColumn(pgscatalog_df, ArtifactColumns[k])
       THEN /\ Exit(ExitUncaught, "KeyError")
            /\ UNCHANGED disk
       ELSE /\ disk' = IF was_match_successful
                       THEN (processed_wm_text_file :>
                                ToCsv(Project(pgscatalog_df, ArtifactColumns))) @@ disk
                       ELSE disk
            /\ pc' = "verdict"
            /\ NoExit
(* The artifact written with the rows of a repeated key dropped, as        *)
(* drop_duplicates("pos_key") before the projection would.                 *)
WriteArtifactDeduplicated ==
    /\ pc = "to_csv"
    /\ UNCHANGED <<args, fs, prs_wm_text_file, processed_wm_text_file,
                   pgscatalog_df, columns, plink_variants_df, prompts,
                   how_to_match, was_match_successful, plink_calls, profile_df,
                   process>>
    /\ IF \E k \in DOMAIN ArtifactColumns : ~HasColumn(pgscatalog_df, ArtifactColumns[k])
       THEN /\ Exit(ExitUncaught, "KeyError")
            /\ UNCHANGED disk
       ELSE /\ LET keys == Column(pgscatalog_df, "pos_key")
                   first == {i \in DOMAIN keys : \A j \in 1..(i - 1) : keys[j] # keys[i]}
               IN  disk' = (processed_wm_text_file :>
                              ToCsv(Project(KeepRows(pgscatalog_df, first, 1),
                                            ArtifactColumns))) @@ disk
            /\ pc' = "verdict"
            /\ NoExit
(* preprocess_data, line 312: the projection raises KeyError when a column *)
(* it names is not in the table; the file is (over)written otherwise.      *)
WriteArtifact ==
    /\ pc = "to_csv"
    /\ UNCHANGED <<args, fs, prs_wm_text_file, processed_wm_text_file,
                   pgscatalog_df, columns, plink_variants_df, prompts,
                   how_to_match, was_match_successful, plink_calls, profile_df,
                   process>>
    /\ IF \E k \in DOMAIN ArtifactColumns : ~HasColumn(pgscatalog_df, ArtifactColumns[k])
       THEN /\ Exit(ExitUncaught, "KeyError")
            /\ UNCHANGED disk
       ELSE /\ disk' = (processed_wm_text_file :>
                            ToCsv(Project(pgscatalog_df, ArtifactColumns))) @@ disk
            /\ pc' = "verdict"
            /\ NoExit

(* preprocess_data, lines 313-315                                          *)
EnforceVerdict ==
    /\ pc = "verdict"
    /\ UNCHANGED <<args, fs, disk, prs_wm_text_file, processed_wm_text_file,
                   pgscatalog_df, columns, plink_variants_df, prompts,
                   how_to_match, was_match_successful, plink_calls, profile_df,
                   process>>
    /\ IF ~was_match_successful
       THEN Exit(ExitConcordance, "concordance")
       ELSE pc' = "calculate_prs" /\ NoExit

---------------------------------------------------------------------------
(* plink's .profile, as pd.read_table(..., index_col="IID") reads it: the  *)
(* index holds the IIDs, ints when every IID is a number and strs          *)
(* otherwise; the cells are (CNT2, SCORESUM).                              *)
ProfileColumns == <<"CNT2", "SCORESUM">>
ProfileCellPool ==
    { <<IntVal(19), IntVal(3)>>, <<IntVal(21), IntVal(4)>>, <<IntVal(60), IntVal(-5)>> }
ProfileIIDPools == { {StrVal("A"), StrVal("B")}, {IntVal(7)} }
Profiles ==
    UNION { { [columns |-> ProfileColumns, index_name |-> "IID",
               index |-> iids, data |-> cells] :
                 iids \in [1..n -> pool], cells \in [1..n -> ProfileCellPool] } :
            n \in 1..MaxSamples, pool \in ProfileIIDPools }

RECURSIVE SumInts(_)
SumInts(series) ==
    IF series = <<>> THEN 0 ELSE Head(series).i + SumInts(Tail(series))

(* plink_qc, lines 319-320: the labels of the rows whose CNT2 is below     *)
(* 0.95 * mean; c < 0.95 * (sum / n) is compared as 100 c n < 95 sum.      *)
bad_samples(df) ==
    { df.index[i] : i \in { r \in DOMAIN df.data :
        100 * Column(df, "CNT2")[r].i * Len(df.data)
            < QcThresholdPct * SumInts(Column(df, "CNT2")) } }

(* plink_qc, line 326: df.drop(labels) removes every row carrying one of   *)
(* the labels.                                                             *)
plink_qc(df) ==
    KeepRows(df, {i \in DOMAIN df.data : df.index[i] \notin bad_samples(df)}, 1)

(* The call with only the return code tested.                              *)
RunPlinkReturncodeOnly ==
    /\ pc = "calculate_prs"
    /\ plink_calls' = plink_calls + 1
    /\ UNCHANGED <<args, fs, prs_wm_text_file, processed_wm_text_file,
                   pgscatalog_df, columns, plink_variants_df, prompts,
                   how_to_match, was_match_successful, profile_df>>
    /\ \E returncode \in {0, 1}, wrote \in BOOLEAN, table \in Profiles :
          /\ process' = <<returncode>>
          /\ disk' = IF wrote THEN (args.out \o ProfileExt :> table) @@ disk
                     ELSE disk
          /\ IF returncode # 0
             THEN Exit(ExitPlinkFailed, "plink_failed")
             ELSE pc' = "parse_plink_results" /\ NoExit
(* calculate_prs, lines 337-348: one blocking call of the scorer           *)
RunPlink ==
    /\ pc = "calculate_prs"
    /\ plink_calls' = plink_calls + 1
    /\ UNCHANGED <<args, fs, prs_wm_text_file, processed_wm_text_file,
                   pgscatalog_df, columns, plink_variants_df, prompts,
                   how_to_match, was_match_successful, profile_df>>
    /\ \E returncode \in {0, 1}, wrote \in BOOLEAN, table \in Profiles :
          /\ process' = <<returncode>>
          /\ disk' = IF wrote THEN (args.out \o ProfileExt :> table) @@ disk
                     ELSE disk
          /\ IF returncode # 0 \/ ~wrote
             THEN Exit(ExitPlinkFailed, "plink_failed")
             ELSE pc' = "parse_plink_results" /\ NoExit

(* calculate_prs, lines 352-354, with plink_qc: ",".join(bad_samples)      *)
(* raises TypeError on int labels.                                         *)
ParsePlinkResults ==
    /\ pc = "parse_plink_results"
    /\ UNCHANGED <<args, fs, prs_wm_text_file, processed_wm_text_file,
                   pgscatalog_df, columns, plink_variants_df, prompts,
                   how_to_match, was_match_successful, plink_calls,
                   process>>
    /\ LET df == disk[args.out \o ProfileExt]
       IN  IF \E label \in bad_samples(df) : label.t # "str"
           THEN /\ Exit(ExitUncaught, "TypeError")
                /\ profile_df' = df
                /\ UNCHANGED disk
           ELSE /\ profile_df' = plink_qc(df)
                /\ disk' = (args.out \o PrsExt :>
                               ToCsv(Project(profile_df', <<"SCORESUM">>))) @@ disk
                /\ pc' = "done"
                /\ NoExit

Next ==
    \/ CheckInput
    \/ MaybeUnpack
    \/ LoadPrsWm
    \/ AnnotatePgscatalogFile
    \/ LoadPlink
    \/ AskHowToMatch
    \/ prep_keys_rsid
    \/ prep_keys_chrompos
    \/ CheckTheFilesMatch
    \/ WriteArtifact
    \/ EnforceVerdict
    \/ RunPlink
    \/ ParsePlinkResults

Spec == Init /\ [][Next]_vars
---------------------------------------------------------------------------
(* Where the run is.                                                       *)
KeysDerived ==
    \/ pc \in {"check_the_files_match", "to_csv", "verdict", "calculate_prs",
               "parse_plink_results", "done"}
    \/ pc = "exit" /\ cause \in {"KeyError", "concordance", "plink_failed", "TypeError"}
VerdictComputed == KeysDerived /\ pc # "check_the_files_match"
ProjectionDone == VerdictComputed /\ pc # "to_csv"
Terminated == pc \in {"exit", "done"}

PosKeys == Column(pgscatalog_df, "pos_key")
PanelIds == {plink_variants_df[j].rsid : j \in DOMAIN plink_variants_df}

C1_SharedKeys == {k \in PanelIds : \E i \in DOMAIN PosKeys : PosKeys[i] = k}
(* C1: the verdict is accepted iff the number of distinct join keys found  *)
(* both among the weight table's keys and among the panel's identifiers,   *)
(* divided by the number of weight rows (duplicates included), exceeds     *)
(* 0.5; a ratio of exactly 0.5 is rejected.                                *)
C1_AcceptedIffMajorityShared ==
    VerdictComputed =>
        (was_match_successful <=>
            /\ Len(pgscatalog_df.data) > 0
            /\ 2 * Cardinality(C1_SharedKeys) > Len(pgscatalog_df.data))
(* A key matching twice, counted once, leaves the ratio at exactly 0.5.    *)
C1_Witness ==
    /\ VerdictComputed
    /\ Cardinality({i \in DOMAIN PosKeys : PosKeys[i] \in PanelIds}) = 2
    /\ Cardinality(C1_SharedKeys) = 1
    /\ 2 * Cardinality(C1_SharedKeys) = Len(pgscatalog_df.data)
    /\ ~was_match_successful

(* The join artifact of this run, once written.                            *)
ArtifactWritten == processed_wm_text_file \in DOMAIN disk
Artifact == disk[processed_wm_text_file]

(* The operator named the weight matrix's own weight and effect-allele     *)
(* columns (the fifth and the fourth of both headers) at the two prompts   *)
(* of annotate_pgscatalog_file, and the weight matrix has rows.            *)
DesignatedTruthfully ==
    /\ Len(pgscatalog_df.data) > 0
    /\ columns = annotate_pgscatalog_file(pgscatalog_df.columns[5],
                                          pgscatalog_df.columns[4])

(* C2: every line of the join artifact has exactly three fields, JoinKey,  *)
(* effect allele, effect weight, so that the scorer's columns 1, 2, 3 are  *)
(* the identifier, the effect allele and the weight of the row.            *)
C2_ArtifactHasThreeFields ==
    (ArtifactWritten /\ DesignatedTruthfully) =>
        /\ \A l \in DOMAIN Artifact : Len(Artifact[l]) = 3
        /\ \A i \in DOMAIN pgscatalog_df.data :
              /\ Artifact[i + 1][1] = PyStr(PosKeys[i])
              /\ Artifact[i + 1][2] = PyStr(Column(pgscatalog_df, "effect_allele")[i])
              /\ Artifact[i + 1][3] = PyStr(Column(pgscatalog_df, "effect_weight")[i])

(* C3: a run whose verdict is rejected ends with exit status 40, without   *)
(* a call of plink and without a .profile or a .prs.                       *)
C3_RejectedEndsWithConcordanceFailure ==
    (Terminated /\ VerdictComputed /\ ~was_match_successful /\ DesignatedTruthfully) =>
        /\ exited
        /\ exitCode = ExitConcordance
        /\ plink_calls = 0
        /\ args.out \o ProfileExt \notin DOMAIN disk
        /\ args.out \o PrsExt \notin DOMAIN disk

C4_AllSentinel ==
    \A j \in DOMAIN plink_variants_df : plink_variants_df[j].rsid = StrVal(".")
(* C4: with the rsid strategy chosen and every identifier of the panel     *)
(* ".", the run ends with exit status 30 at prep_keys_rsid: no key column  *)
(* was asked for, no key derived (by either strategy), no artifact         *)
(* written and plink not called.                                           *)
C4_UnannotatedFailsFast ==
    (how_to_match = "rsid" /\ C4_AllSentinel /\ pc # "prep_keys") =>
        /\ pc = "exit"
        /\ exited
        /\ exitCode = ExitUnannotated
        /\ \A k \in DOMAIN prompts : prompts[k] \notin {"rsID", "chromosome", "position"}
        /\ ~HasColumn(pgscatalog_df, "pos_key")
        /\ ~ArtifactWritten
        /\ plink_calls = 0
C4_Witness ==
    /\ how_to_match = "rsid"
    /\ Len(plink_variants_df) = 2
    /\ C4_AllSentinel
    /\ Len(pgscatalog_df.data) > 0
    /\ exited
    /\ exitCode = ExitUnannotated

(* The .profile plink left, and the rows of it whose CNT2 is not below     *)
(* 0.95 times the mean over all of its rows.                               *)
C5_Profile == disk[args.out \o ProfileExt]
C5_Retained ==
    {r \in DOMAIN C5_Profile.data :
        ~(100 * C5_Profile.data[r][1].i * Len(C5_Profile.data)
            < 95 * SumInts(Column(C5_Profile, "CNT2")))}
(* C5: plink_qc removes exactly the samples whose CNT2 is below 0.95 times *)
(* the mean of CNT2 over all samples; the others stay, in their order, and *)
(* the .prs holds them as (sample id, SCORESUM).                           *)
C5_QcRemovesExactlyLowCountSamples ==
    pc = "done" =>
        /\ profile_df = KeepRows(C5_Profile, C5_Retained, 1)
        /\ disk[args.out \o PrsExt] =
              <<(<<"IID", "SCORESUM">>)>> \o
              [k \in DOMAIN profile_df.data |->
                  <<PyStr(profile_df.index[k]), PyStr(profile_df.data[k][2])>>]

(* The one cause each exit status stands for.                              *)
C6_CauseOf(code) ==
    CASE code = 1 -> "genetic_missing"
      [] code = 2 -> "prs_wm_missing"
      [] code = 3 -> "out_missing"
      [] code = 4 -> "genetic_malformed"
      [] code = 5 -> "prs_wm_not_file"
      [] code = 20 -> "plink_failed"
      [] code = 30 -> "unannotated"
      [] code = 40 -> "concordance"
      [] OTHER -> "undocumented"
(* C6: every abnormal end of the run has an exit status that names one     *)
(* cause: no status is produced by two different failures.                 *)
C6_ExitStatusIdentifiesOneCause ==
    exited => cause = C6_CauseOf(exitCode)

(* A chromosome name with its "chr" prefix stripped; the locus strategy    *)
(* run with the weight matrix's own chromosome and position columns (the   *)
(* second and the third of both headers) named at the prompts.             *)
C7_Normalized(chrom) == IF chrom = "chr1" THEN "1" ELSE chrom
C7_LocusDesignated ==
    /\ how_to_match = "pos"
    /\ VerdictComputed
    /\ pgscatalog_df = KeysFromChrompos(pgscatalog_df, pgscatalog_df.columns[2],
                                        pgscatalog_df.columns[3])
(* C7: under the locus strategy a weight record and a panel record with    *)
(* the same chromosome name, "chr" prefix stripped, and the same position  *)
(* have equal join keys and the key is counted as shared.                  *)
C7_SameLocusIsShared ==
    C7_LocusDesignated =>
        \A i \in DOMAIN pgscatalog_df.data, j \in DOMAIN plink_variants_df :
            (/\ C7_Normalized(PyStr(pgscatalog_df.data[i][2]))
                  = C7_Normalized(PyStr(plink_variants_df[j].chr_name))
             /\ pgscatalog_df.data[i][3] = plink_variants_df[j].chr_position)
            => /\ PosKeys[i] \in PanelIds
               /\ amount_of_shared_keys(pgscatalog_df, plink_variants_df) >= 1

(* C8: whatever the header's column names, the columns the operator names  *)
(* as beta and as effect allele become effect_weight and effect_allele:    *)
(* the projection succeeds and fields 2 and 3 of every artifact row are    *)
(* the row's effect allele and weight.                                     *)
C8_DesignatedColumnsReachArtifact ==
    /\ DesignatedTruthfully =>
          /\ HasColumn(pgscatalog_df, "effect_allele")
          /\ HasColumn(pgscatalog_df, "effect_weight")
          /\ \A i \in DOMAIN pgscatalog_df.data :
                /\ Column(pgscatalog_df, "effect_allele")[i] = pgscatalog_df.data[i][4]
                /\ Column(pgscatalog_df, "effect_weight")[i] = pgscatalog_df.data[i][5]
    /\ (ProjectionDone /\ DesignatedTruthfully) =>
          /\ cause # "KeyError"
          /\ ArtifactWritten
          /\ \A i \in DOMAIN pgscatalog_df.data :
                /\ Artifact[i + 1][2] = PyStr(pgscatalog_df.data[i][4])
                /\ Artifact[i + 1][3] = PyStr(pgscatalog_df.data[i][5])

C9_VerdictEnforced ==
    \/ pc \in {"calculate_prs", "parse_plink_results", "done"}
    \/ pc = "exit" /\ cause \in {"concordance", "plink_failed", "TypeError"}
C9_ArtifactPath ==
    (IF args.prs_wm = WmTxtGz THEN WmTxt ELSE args.prs_wm) \o AnnotatedExt
(* C9: when the verdict is enforced, by exit status 40 as by going on to   *)
(* the scorer, the artifact of the attempted join is on disk at the path   *)
(* derived from the weight-matrix argument, one line per row and a header. *)
C9_ArtifactWrittenBeforeVerdictEnforced ==
    C9_VerdictEnforced =>
        /\ C9_ArtifactPath \in DOMAIN disk
        /\ Len(disk[C9_ArtifactPath]) = Len(pgscatalog_df.data) + 1
C9_Witness ==
    /\ exited
    /\ exitCode = ExitConcordance
    /\ args.prs_wm = WmTxtGz
    /\ Len(pgscatalog_df.data) = 2
    /\ C9_ArtifactPath \in DOMAIN disk

C10_ScorerFailed ==
    /\ process # <<>>
    /\ (process[1] # 0 \/ args.out \o ProfileExt \notin DOMAIN disk)
(* C10: a scorer call that returns non-zero or leaves no .profile ends the *)
(* run with exit status 20, after that one call and without a .prs; a .prs *)
(* exists only after a call that returned zero and left the .profile.      *)
C10_ScorerFailureIsFatal ==
    /\ plink_calls <= 1
    /\ C10_ScorerFailed =>
          /\ pc = "exit"
          /\ exitCode = ExitPlinkFailed
          /\ plink_calls = 1
          /\ args.out \o PrsExt \notin DOMAIN disk
    /\ args.out \o PrsExt \in DOMAIN disk =>
          /\ process = <<0>>
          /\ args.out \o ProfileExt \in DOMAIN disk
C10_Witness ==
    /\ process = <<0>>
    /\ args.out \o ProfileExt \notin DOMAIN disk
    /\ exitCode = ExitPlinkFailed

(* The last three fields of an artifact line.                              *)
C11_RowOfLine(line) ==
    <<line[Len(line) - 2], line[Len(line) - 1], line[Len(line)]>>
(* C11: the data rows of the join artifact are the rows of the keyed       *)
(* weight table, one line per weight record in the table's order, each     *)
(* carrying that record's JoinKey, effect allele and weight: no row is     *)
(* dropped, added, reordered or deduplicated, whatever the verdict.        *)
C11_ArtifactRowsAreWeightRows ==
    ArtifactWritten =>
        /\ Len(Artifact) = Len(pgscatalog_df.data) + 1
        /\ \A i \in DOMAIN pgscatalog_df.data :
              C11_RowOfLine(Artifact[i + 1]) =
                  <<PyStr(PosKeys[i]),
                    PyStr(Column(pgscatalog_df, "effect_allele")[i]),
                    PyStr(Column(pgscatalog_df, "effect_weight")[i])>>
(* Two records with the same JoinKey, both written, on a rejected verdict. *)
C11_Witness ==
    /\ exited
    /\ exitCode = ExitConcordance
    /\ Len(pgscatalog_df.data) = 2
    /\ PosKeys[1] = PosKeys[2]
    /\ ArtifactWritten
    /\ Len(Artifact) = 3
====
